---- MODULE Spec2Model ----
(***************************************************************************)
(* Model of the two notebooks of the workshop repository:                  *)
(*   02_automl/02_Train_Reviews_AutoPilot.ipynb   (specification Spec,     *)
(*   with LiveSpec its fair version; SpecStrip for the .rstrip of the      *)
(*   generated_resources cell)                                             *)
(*   06_train/02_Train_Reviews_XGBoost_BuiltIn.ipynb (SpecXGB for the      *)
(*   conversion of the predictions)                                        *)
(* and of what they share: SpecKernel, either notebook run top to bottom   *)
(* with the names its cells read and bind, and SpecTable, load_dataset.    *)
(* A notebook is run top to bottom; the run stops at the first uncaught    *)
(* exception.  The managed service is the environment: the AutoML job and  *)
(* the endpoint change state on their own between the notebook's steps.    *)
(***************************************************************************)
EXTENDS Integers, Sequences, FiniteSets, TLC

VARIABLES
    pc,                  \* index in Cells of the cell being executed
    at,                  \* position inside that cell
    halted,              \* "none", or the uncaught exception that stopped the run
    clock,               \* gmtime(), in ticks
    timestamp_suffix,    \* notebook variables; Unbound until assigned
    auto_ml_job_name,
    model_name,
    epc_name,
    xgb_endpoint_name,
    job,
    job_status,
    job_sec_status,
    generated_resources,
    best_candidate,
    out,                 \* what the current cell printed outside its loop
    iter,                \* iterations of the current cell's while loop (saturating)
    iter_calls,          \* describe_auto_ml_job calls in the current iteration
    iter_slept,          \* the sleeps of the current iteration, in seconds
    ncalls,              \* service operation -> number of calls issued (saturating)
    returned,            \* service operations that have returned without raising
    waited_name,         \* EndpointName the waiter returned successfully for
    invoked_names,       \* EndpointNames passed to invoke_endpoint
    svc_status,          \* the service's AutoMLJobStatus of the job
    svc_phase,           \* the step of the job the service reached
    svc_best,            \* the service holds a BestCandidate for the job
    ep_status,           \* the service's EndpointStatus
    passed,              \* call parameter -> the names passed as its argument
    preds_test,          \* XGBoost notebook: predicted probabilities
    preds_test_0_or_1,   \* XGBoost notebook: the classes
    xpc,                 \* XGBoost notebook: position
    s3_prefix,           \* the S3 prefix under which the job wrote its notebooks
    notebook_location,   \* a DataExplorationNotebookLocation
    rstrip_result,       \* what .rstrip(...) made of it; Unbound before
    notebook,            \* kernel run: the notebook being run
    kpc,                 \* kernel run: index of the cell being executed
    namespace,           \* kernel run: the names bound in the kernel
    leftover,            \* kernel run: the names the kernel held at the start
    stored,              \* kernel run: the names %store holds
    kerr,                \* kernel run: "none", or the exception that stopped it
    running,             \* kernel run: the blocking operation in progress
    finished,            \* kernel run: the operations that have returned
    training_job,        \* the service's status of the training job
    files,               \* the files under ./models/built-in/
    csv_files,           \* load_dataset: the lines of the CSV files under path
    header,              \* load_dataset: its header argument, "None" or "0"
    data,                \* load_dataset: the frame read
    labels,              \* load_dataset: the first value returned
    features,            \* load_dataset: the second value returned
    lpc                  \* load_dataset: position

vars == << pc, at, halted, clock, timestamp_suffix, auto_ml_job_name, model_name,
           epc_name, xgb_endpoint_name, job, job_status, job_sec_status,
           generated_resources, best_candidate, out, iter, iter_calls, iter_slept,
           ncalls, returned, waited_name, invoked_names, svc_status, svc_phase,
           svc_best, ep_status, passed, preds_test, preds_test_0_or_1, xpc,
           s3_prefix, notebook_location, rstrip_result,
           notebook, kpc, namespace, leftover, stored, kerr, running, finished,
           training_job, files, csv_files, header, data, labels, features, lpc >>

autopilot_vars == << pc, at, halted, clock, timestamp_suffix, auto_ml_job_name,
           model_name, epc_name, xgb_endpoint_name, job, job_status, job_sec_status,
           generated_resources, best_candidate, out, iter, iter_calls, iter_slept,
           ncalls, returned, waited_name, invoked_names, svc_status, svc_phase,
           svc_best, ep_status, passed >>

xgb_vars == << preds_test, preds_test_0_or_1, xpc >>

strip_vars == << s3_prefix, notebook_location, rstrip_result >>

\* what neither the AutoPilot notebook nor the service touches
kernel_vars == << notebook, kpc, namespace, leftover, stored, kerr, running,
                 finished, training_job, files >>

table_vars == << csv_files, header, data, labels, features, lpc >>

other_vars == << xgb_vars, strip_vars, kernel_vars, table_vars >>

-----------------------------------------------------------------------------
(* Bounds of the model *)

\* gmtime() takes the values 0..MaxClock
MaxClock == 1

\* the loop iteration counter saturates here
MaxIter == 3

\* the per-operation call counter saturates here
MaxCalls == 2

\* predictions per test set
MaxLen == 2

\* characters of an S3 prefix before its final "/"
MaxPrefix == 3

\* columns of a CSV file
MaxCols == 3

\* lines of a CSV file after its first
MaxRows == 1

\* CSV files under the path
MaxFiles == 2

\* probabilities are the fractions num/den with den in 1..MaxDen
MaxDen == 4

-----------------------------------------------------------------------------
(* Python values *)

Unbound == "<unbound>"

\* Python's `a in b` for two strings: a is a substring of b
StrIn(a, b) ==
    \E i \in 1..(Len(b) + 1) :
        /\ i + Len(a) - 1 <= Len(b)
        /\ SubSeq(b, i, i + Len(a) - 1) = a

\* Python's `a in (x, y)`: membership in a tuple
TupleIn(a, t) == \E i \in 1..Len(t) : t[i] = a

Min(a, b) == IF a < b THEN a ELSE b

\* Python's s.rstrip(chars): chars is a set of characters, and trailing
\* characters are removed for as long as the last one is in that set
RECURSIVE rstrip(_, _)
rstrip(s, chars) ==
    IF Len(s) > 0 /\ StrIn(SubSeq(s, Len(s), Len(s)), chars)
    THEN rstrip(SubSeq(s, 1, Len(s) - 1), chars)
    ELSE s

-----------------------------------------------------------------------------
(* The service's AutoML job, as the notebook observes it *)

Phases == << "Starting", "AnalyzingData", "FeatureEngineering", "ModelTuning" >>

PhaseIndex(p) == CHOOSE i \in 1..Len(Phases) : Phases[i] = p

\* AutoMLJobSecondaryStatus: the step while in progress, else the status
\* (the recorded run prints "InProgress AnalyzingData" and "Failed Failed")
SecondaryStatus(status, phase) == IF status = "InProgress" THEN phase ELSE status

\* the generated notebooks exist once data analysis is complete
HasArtifacts(status, phase) ==
    \/ status = "Completed"
    \/ PhaseIndex(phase) > PhaseIndex("AnalyzingData")

\* the response of describe_auto_ml_job
DescribeResponse ==
    [ AutoMLJobStatus          |-> svc_status,
      AutoMLJobSecondaryStatus |-> SecondaryStatus(svc_status, svc_phase),
      AutoMLJobArtifacts       |-> HasArtifacts(svc_status, svc_phase),
      BestCandidate            |-> svc_best ]

-----------------------------------------------------------------------------
(* The AutoPilot notebook: its code cells, top to bottom *)

\* mutant: the waiter cell placed before the create_endpoint cell
CellsWaitFirst ==
    << "setup", "dataset", "s3_ls", "output_location", "job_config", "name_job",
       "create_auto_ml_job",
       "analyzing_data", "describe_job", "feature_engineering", "model_tuning",
       "generated_resources", "s3_cp",
       "list_candidates", "experiments",
       "best_candidate", "show_best_candidate", "inference_containers",
       "create_model", "endpoint_names", "create_endpoint_config", "wait_endpoint",
       "create_endpoint", "describe_endpoint", "runtime_client",
       "invoke_positive", "invoke_negative",
       "test_path", "ls_test", "def_load_dataset", "load_test", "show_test",
       "invoke_test", "parse_preds", "metrics" >>

Cells ==
    << "setup", "dataset", "s3_ls", "output_location", "job_config", "name_job",
       "create_auto_ml_job",
       "analyzing_data", "describe_job", "feature_engineering", "model_tuning",
       "generated_resources", "s3_cp",
       "list_candidates", "experiments",
       "best_candidate", "show_best_candidate", "inference_containers",
       "create_model", "endpoint_names", "create_endpoint_config", "create_endpoint",
       "wait_endpoint", "describe_endpoint", "runtime_client",
       "invoke_positive", "invoke_negative",
       "test_path", "ls_test", "def_load_dataset", "load_test", "show_test",
       "invoke_test", "parse_preds", "metrics" >>

\* cells that call no service operation and bind nothing the model follows
PlainCells ==
    { "setup", "dataset", "s3_ls", "output_location", "job_config",
      "show_best_candidate", "inference_containers", "runtime_client",
      "test_path", "ls_test", "def_load_dataset", "load_test", "show_test",
      "parse_preds", "metrics" }

PollingCells == { "analyzing_data", "feature_engineering", "model_tuning" }

InvokeCells == { "invoke_positive", "invoke_negative", "invoke_test" }

CellIndex(c) == CHOOSE i \in 1..Len(Cells) : Cells[i] = c

Done == pc > Len(Cells)

Running == halted = "none" /\ ~Done

Cell == IF Done THEN "<end>" ELSE Cells[pc]

\* the service operations the notebook issues
Operations ==
    { "create_auto_ml_job", "describe_auto_ml_job", "s3_cp",
      "list_candidates_for_auto_ml_job", "experiment_analytics",
      "create_model", "create_endpoint_config", "create_endpoint",
      "endpoint_in_service", "describe_endpoint", "invoke_endpoint" }

Issue(op) == [ncalls EXCEPT ![op] = Min(@ + 1, MaxCalls)]

\* strftime('%d-%H-%M-%S', gmtime())
strftime(t) == ToString(t)

UnboundJob ==
    [ AutoMLJobStatus          |-> Unbound,
      AutoMLJobSecondaryStatus |-> Unbound,
      AutoMLJobArtifacts       |-> FALSE,
      BestCandidate            |-> FALSE ]

\* the sub-status a polling cell waits on
PollTarget(c) ==
    CASE c = "analyzing_data"      -> "AnalyzingData"
      [] c = "feature_engineering" -> "FeatureEngineering"
      [] c = "model_tuning"        -> "ModelTuning"

\* the message a polling cell prints after its loop
CompleteMessage(c) ==
    CASE c = "analyzing_data"      -> "Data analysis complete"
      [] c = "feature_engineering" -> "Feature engineering complete"
      [] c = "model_tuning"        -> "Model tuning complete"

CompleteMessages == { CompleteMessage(c) : c \in PollingCells }

\* mutant: the guard left out, the loop and the message always reached
IfCondAlways(status) == TRUE

\* if job_status not in ('Stopped', 'Failed'):
IfCond(status) == ~TupleIn(status, << "Stopped", "Failed" >>)

\* mutant: the loop gives up after two iterations
LoopCondCapped(status, sec, target) ==
    StrIn(status, "InProgress") /\ StrIn(sec, target) /\ iter < 2

\* mutant: the loop tests the status alone
LoopCondStatusOnly(status, sec, target) == StrIn(status, "InProgress")

\* while job_status in ('InProgress') and job_sec_status in ('<target>'):
\* a parenthesised string is a string, so both tests are substring tests
LoopCond(status, sec, target) == StrIn(status, "InProgress") /\ StrIn(sec, target)

\* sleep(30)
PollInterval == 30

\* mutant: the interval grows with the iteration count
SleepBackoff(n) == PollInterval * n

SleepInterval(n) == PollInterval

-----------------------------------------------------------------------------
(* Initial state: a fresh kernel, no job and no endpoint at the service *)

\* the name parameters of the deployment calls
Parameters == { "create_model.ModelName",
                "create_endpoint_config.EndpointConfigName",
                "create_endpoint_config.ModelName",
                "create_endpoint.EndpointName",
                "create_endpoint.EndpointConfigName",
                "endpoint_in_service.EndpointName",
                "describe_endpoint.EndpointName",
                "invoke_endpoint.EndpointName" }

InitAutoPilot ==
    /\ pc = 1
    /\ at = "start"
    /\ halted = "none"
    /\ clock = 0
    /\ timestamp_suffix = Unbound
    /\ auto_ml_job_name = Unbound
    /\ model_name = Unbound
    /\ epc_name = Unbound
    /\ xgb_endpoint_name = Unbound
    /\ job = UnboundJob
    /\ job_status = Unbound
    /\ job_sec_status = Unbound
    /\ generated_resources = Unbound
    /\ best_candidate = Unbound
    /\ out = << >>
    /\ iter = 0
    /\ iter_calls = 0
    /\ iter_slept = << >>
    /\ ncalls = [op \in Operations |-> 0]
    /\ returned = {}
    /\ waited_name = Unbound
    /\ invoked_names = {}
    /\ svc_status = "NotCreated"
    /\ svc_phase = "Starting"
    /\ svc_best = FALSE
    /\ ep_status = "None"
    /\ passed = [p \in Parameters |-> {}]

-----------------------------------------------------------------------------
(* The environment: time and the managed service *)

Tick ==
    /\ clock < MaxClock
    /\ clock' = clock + 1
    /\ UNCHANGED << pc, at, halted, timestamp_suffix, auto_ml_job_name, model_name,
                    epc_name, xgb_endpoint_name, job, job_status, job_sec_status,
                    generated_resources, best_candidate, out, iter, iter_calls,
                    iter_slept, ncalls, returned, waited_name, invoked_names,
                    svc_status, svc_phase, svc_best, ep_status >>
    /\ UNCHANGED << passed, other_vars >>

notebook_vars == << pc, at, halted, timestamp_suffix, auto_ml_job_name, model_name,
                    epc_name, xgb_endpoint_name, job, job_status, job_sec_status,
                    generated_resources, best_candidate, out, iter, iter_calls,
                    iter_slept, ncalls, returned, waited_name, invoked_names,
                    passed >>

\* the job moves on to its next step
JobAdvance ==
    /\ svc_status = "InProgress"
    /\ PhaseIndex(svc_phase) < Len(Phases)
    /\ svc_phase' = Phases[PhaseIndex(svc_phase) + 1]
    /\ UNCHANGED << svc_status, svc_best, ep_status, clock >>
    /\ UNCHANGED notebook_vars
    /\ UNCHANGED << passed, other_vars >>

\* a candidate finishes training
JobCandidate ==
    /\ svc_status = "InProgress"
    /\ svc_phase = "ModelTuning"
    /\ ~svc_best
    /\ svc_best' = TRUE
    /\ UNCHANGED << svc_status, svc_phase, ep_status, clock >>
    /\ UNCHANGED notebook_vars
    /\ UNCHANGED << passed, other_vars >>

JobComplete ==
    /\ svc_status = "InProgress"
    /\ svc_phase = "ModelTuning"
    /\ svc_status' = "Completed"
    /\ svc_best' = TRUE
    /\ UNCHANGED << svc_phase, ep_status, clock >>
    /\ UNCHANGED notebook_vars
    /\ UNCHANGED << passed, other_vars >>

\* the job fails, or is stopped (by the service's runtime limit or from outside)
JobEnd ==
    /\ svc_status = "InProgress"
    /\ \E s \in { "Failed", "Stopped" } : svc_status' = s
    /\ UNCHANGED << svc_phase, svc_best, ep_status, clock >>
    /\ UNCHANGED notebook_vars
    /\ UNCHANGED << passed, other_vars >>

EndpointAdvance ==
    /\ ep_status = "Creating"
    /\ \E s \in { "InService", "Failed" } : ep_status' = s
    /\ UNCHANGED << svc_status, svc_phase, svc_best, clock >>
    /\ UNCHANGED notebook_vars
    /\ UNCHANGED << passed, other_vars >>

-----------------------------------------------------------------------------
(* The notebook's steps *)

names == << timestamp_suffix, auto_ml_job_name, model_name, epc_name, xgb_endpoint_name >>

locals == << job, job_status, job_sec_status >>

loop_vars == << iter, iter_calls, iter_slept >>

env == << clock, svc_status, svc_phase, svc_best, ep_status >>

\* the kernel moves on to the next cell
GotoNext ==
    /\ pc' = pc + 1
    /\ at' = "start"
    /\ out' = << >>
    /\ iter' = 0
    /\ iter_calls' = 0
    /\ iter_slept' = << >>

\* an uncaught exception ends the run in the current cell
Raise(e) ==
    /\ halted' = e
    /\ UNCHANGED << pc, at, out, iter, iter_calls, iter_slept >>

\* a call of operation op raises: nothing is bound, the run stops
CallRaises(op, e) ==
    /\ ncalls' = Issue(op)
    /\ Raise(e)
    /\ UNCHANGED << returned, names, locals, generated_resources, best_candidate,
                    waited_name, invoked_names, env >>

\* a call of operation op returns
CallReturns(op) ==
    /\ ncalls' = Issue(op)
    /\ returned' = returned \cup { op }
    /\ halted' = halted

PlainCell ==
    /\ Running
    /\ Cell \in PlainCells
    /\ GotoNext
    /\ UNCHANGED << halted, names, locals, generated_resources, best_candidate,
                    ncalls, returned, waited_name, invoked_names, env >>
    /\ UNCHANGED << passed, other_vars >>

\* timestamp_suffix = strftime(...); auto_ml_job_name = 'automl-dm-' + timestamp_suffix
NameJob ==
    /\ Running
    /\ Cell = "name_job"
    /\ timestamp_suffix' = strftime(clock)
    /\ auto_ml_job_name' = "automl-dm-" \o timestamp_suffix'
    /\ GotoNext
    /\ UNCHANGED << halted, model_name, epc_name, xgb_endpoint_name, locals,
                    generated_resources, best_candidate, ncalls, returned,
                    waited_name, invoked_names, env >>
    /\ UNCHANGED << passed, other_vars >>

\* sm.create_auto_ml_job(AutoMLJobName=auto_ml_job_name, ...)
CreateAutoMLJob ==
    /\ Running
    /\ Cell = "create_auto_ml_job"
    /\ \/ CallRaises("create_auto_ml_job", "ClientError")
       \/ /\ CallReturns("create_auto_ml_job")
          /\ svc_status' = "InProgress"
          /\ svc_phase' = "Starting"
          /\ svc_best' = FALSE
          /\ GotoNext
          /\ UNCHANGED << names, locals, generated_resources, best_candidate,
                          waited_name, invoked_names, clock, ep_status >>
    /\ UNCHANGED << passed, other_vars >>

\* (time.sleep(3) in the first cell;) job = sm.describe_auto_ml_job(...);
\* job_status = ...; job_sec_status = ...; and, in the two later cells, print(job_status); print(job_sec_status);
\* then the test of `if job_status not in ('Stopped', 'Failed')`
PollFirst(c) ==
    /\ Running
    /\ Cell = c
    /\ at = "start"
    /\ \/ CallRaises("describe_auto_ml_job", "ClientError")
       \/ /\ CallReturns("describe_auto_ml_job")
          /\ job' = DescribeResponse
          /\ job_status' = job'.AutoMLJobStatus
          /\ job_sec_status' = job'.AutoMLJobSecondaryStatus
          /\ out' = IF c = "analyzing_data" THEN << >>
                    ELSE << job_status', job_sec_status' >>
          /\ at' = IF IfCond(job_status') THEN "while" ELSE "print_job"
          /\ UNCHANGED << pc, loop_vars, names, generated_resources, best_candidate,
                          waited_name, invoked_names, env >>
    /\ UNCHANGED << passed, other_vars >>

\* the test of the while loop
PollWhile(c) ==
    /\ Running
    /\ Cell = c
    /\ at = "while"
    /\ IF LoopCond(job_status, job_sec_status, PollTarget(c))
       THEN /\ at' = "body"
            /\ iter' = Min(iter + 1, MaxIter)
            /\ iter_calls' = 0
            /\ iter_slept' = << >>
       ELSE /\ at' = "complete"
            /\ UNCHANGED loop_vars
    /\ UNCHANGED << pc, halted, out, names, locals, generated_resources,
                    best_candidate, ncalls, returned, waited_name, invoked_names, env >>
    /\ UNCHANGED << passed, other_vars >>

\* the loop body up to its print: describe again, print(job_status, job_sec_status)
PollBody(c) ==
    /\ Running
    /\ Cell = c
    /\ at = "body"
    /\ \/ CallRaises("describe_auto_ml_job", "ClientError")
       \/ /\ CallReturns("describe_auto_ml_job")
          /\ job' = DescribeResponse
          /\ job_status' = job'.AutoMLJobStatus
          /\ job_sec_status' = job'.AutoMLJobSecondaryStatus
          /\ iter_calls' = iter_calls + 1
          /\ at' = "sleep"
          /\ UNCHANGED << pc, out, iter, iter_slept, names, generated_resources,
                          best_candidate, waited_name, invoked_names, env >>
    /\ UNCHANGED << passed, other_vars >>

\* mutant: a loop that gives up on a slow job and stops it
PollSleepStopsJob(c) ==
    /\ Running
    /\ Cell = c
    /\ at = "sleep"
    /\ iter_slept' = Append(iter_slept, SleepInterval(iter))
    /\ at' = "while"
    /\ svc_status' = IF iter >= 2 /\ svc_status = "InProgress" THEN "Stopped"
                     ELSE svc_status
    /\ UNCHANGED << pc, halted, out, iter, iter_calls, names, locals,
                    generated_resources, best_candidate, ncalls, returned,
                    waited_name, invoked_names, clock, svc_phase, svc_best, ep_status >>
    /\ UNCHANGED << passed, other_vars >>

\* sleep(30), the last statement of the loop body
PollSleep(c) ==
    /\ Running
    /\ Cell = c
    /\ at = "sleep"
    /\ iter_slept' = Append(iter_slept, SleepInterval(iter))
    /\ at' = "while"
    /\ UNCHANGED << pc, halted, out, iter, iter_calls, names, locals,
                    generated_resources, best_candidate, ncalls, returned,
                    waited_name, invoked_names, env >>
    /\ UNCHANGED << passed, other_vars >>

\* print("... complete"), after the loop and inside the if
PollComplete(c) ==
    /\ Running
    /\ Cell = c
    /\ at = "complete"
    /\ out' = Append(out, CompleteMessage(c))
    /\ at' = "print_job"
    /\ UNCHANGED << pc, halted, loop_vars, names, locals, generated_resources,
                    best_candidate, ncalls, returned, waited_name, invoked_names, env >>
    /\ UNCHANGED << passed, other_vars >>

\* mutant: a cell that submits the job again when it failed or was stopped
PollPrintJobResubmit(c) ==
    /\ Running
    /\ Cell = c
    /\ at = "print_job"
    /\ IF job_status \in { "Failed", "Stopped" }
       THEN /\ ncalls' = Issue("create_auto_ml_job")
            /\ svc_status' = "InProgress"
            /\ svc_phase' = "Starting"
            /\ at' = "start"
            /\ UNCHANGED << pc, out, loop_vars, svc_best >>
       ELSE /\ GotoNext
            /\ UNCHANGED << ncalls, svc_status, svc_phase, svc_best >>
    /\ UNCHANGED << halted, names, locals, generated_resources, best_candidate,
                    returned, waited_name, invoked_names, clock, ep_status >>
    /\ UNCHANGED << passed, other_vars >>

\* print(job), the last statement of the cell
PollPrintJob(c) ==
    /\ Running
    /\ Cell = c
    /\ at = "print_job"
    /\ GotoNext
    /\ UNCHANGED << halted, names, locals, generated_resources, best_candidate,
                    ncalls, returned, waited_name, invoked_names, env >>
    /\ UNCHANGED << passed, other_vars >>

\* job = sm.describe_auto_ml_job(...); print(job)
DescribeJob ==
    /\ Running
    /\ Cell = "describe_job"
    /\ \/ CallRaises("describe_auto_ml_job", "ClientError")
       \/ /\ CallReturns("describe_auto_ml_job")
          /\ job' = DescribeResponse
          /\ GotoNext
          /\ UNCHANGED << job_status, job_sec_status, names, generated_resources,
                          best_candidate, waited_name, invoked_names, env >>
    /\ UNCHANGED << passed, other_vars >>

\* mutant: a lookup with a default, job.get('AutoMLJobArtifacts', {}).get(..., '')
ArtifactLocationOrDefault(j) ==
    IF j.AutoMLJobArtifacts THEN "DataExplorationNotebookLocation" ELSE ""

\* job['AutoMLJobArtifacts']['DataExplorationNotebookLocation']: a subscript of a
\* dict raises KeyError when the key is absent
ArtifactLocation(j) ==
    IF j.AutoMLJobArtifacts THEN "DataExplorationNotebookLocation" ELSE "KeyError"

\* generated_resources = job['AutoMLJobArtifacts'][...].rstrip(...)
\* (here the cell binds the name or raises; SpecStrip computes the value)
GeneratedResources ==
    /\ Running
    /\ Cell = "generated_resources"
    /\ IF ArtifactLocation(job) = "KeyError"
       THEN /\ Raise("KeyError")
            /\ UNCHANGED generated_resources
       ELSE /\ generated_resources' = "generated_resources"
            /\ GotoNext
            /\ UNCHANGED halted
    /\ UNCHANGED << names, locals, best_candidate, ncalls, returned, waited_name,
                    invoked_names, env >>
    /\ UNCHANGED << passed, other_vars >>

\* !aws s3 cp --recursive $generated_resources .   (a shell command raises nothing)
S3Cp ==
    /\ Running
    /\ Cell = "s3_cp"
    /\ CallReturns("s3_cp")
    /\ GotoNext
    /\ UNCHANGED << names, locals, generated_resources, best_candidate, waited_name,
                    invoked_names, env >>
    /\ UNCHANGED << passed, other_vars >>

\* candidates = sm.list_candidates_for_auto_ml_job(...)['Candidates']; print each
ListCandidates ==
    /\ Running
    /\ Cell = "list_candidates"
    /\ \/ CallRaises("list_candidates_for_auto_ml_job", "ClientError")
       \/ /\ CallReturns("list_candidates_for_auto_ml_job")
          /\ GotoNext
          /\ UNCHANGED << names, locals, generated_resources, best_candidate,
                          waited_name, invoked_names, env >>
    /\ UNCHANGED << passed, other_vars >>

\* exp = ExperimentAnalytics(...); df = exp.dataframe()
Experiments ==
    /\ Running
    /\ Cell = "experiments"
    /\ \/ CallRaises("experiment_analytics", "ClientError")
       \/ /\ CallReturns("experiment_analytics")
          /\ GotoNext
          /\ UNCHANGED << names, locals, generated_resources, best_candidate,
                          waited_name, invoked_names, env >>
    /\ UNCHANGED << passed, other_vars >>

\* best_candidate = sm.describe_auto_ml_job(...)['BestCandidate']
BestCandidate ==
    /\ Running
    /\ Cell = "best_candidate"
    /\ \/ CallRaises("describe_auto_ml_job", "ClientError")
       \/ /\ ncalls' = Issue("describe_auto_ml_job")
          /\ returned' = returned \cup { "describe_auto_ml_job" }
          /\ IF DescribeResponse.BestCandidate
             THEN /\ best_candidate' = "BestCandidate"
                  /\ GotoNext
                  /\ UNCHANGED halted
             ELSE /\ Raise("KeyError")
                  /\ UNCHANGED best_candidate
          /\ UNCHANGED << names, locals, generated_resources, waited_name,
                          invoked_names, env >>
    /\ UNCHANGED << passed, other_vars >>

\* model_name = 'automl-dm-model-' + timestamp_suffix; sm.create_model(...)
CreateModel ==
    /\ Running
    /\ Cell = "create_model"
    /\ model_name' = "automl-dm-model-" \o timestamp_suffix
    /\ \/ /\ ncalls' = Issue("create_model")
          /\ Raise("ClientError")
          /\ UNCHANGED returned
       \/ /\ CallReturns("create_model")
          /\ GotoNext
    /\ UNCHANGED << timestamp_suffix, auto_ml_job_name, epc_name, xgb_endpoint_name,
                    locals, generated_resources, best_candidate, waited_name,
                    invoked_names, env >>
    /\ passed' = [passed EXCEPT !["create_model.ModelName"] = @ \cup { model_name' }]
    /\ UNCHANGED other_vars

\* timestamp_suffix = strftime(...); epc_name = ...; xgb_endpoint_name = ...
EndpointNames ==
    /\ Running
    /\ Cell = "endpoint_names"
    /\ timestamp_suffix' = strftime(clock)
    /\ epc_name' = "automl-dm-epc-" \o timestamp_suffix'
    /\ xgb_endpoint_name' = "automl-dm-ep-" \o timestamp_suffix'
    /\ GotoNext
    /\ UNCHANGED << halted, auto_ml_job_name, model_name, locals, generated_resources,
                    best_candidate, ncalls, returned, waited_name, invoked_names, env >>
    /\ UNCHANGED << passed, other_vars >>

\* mutant: the model's name built again from timestamp_suffix as it is now
VariantModelNameRebuilt == "automl-dm-model-" \o timestamp_suffix

\* 'ModelName': model_name   in ProductionVariants
VariantModelName == model_name

\* ep_config = sm.create_endpoint_config(EndpointConfigName=epc_name, ...)
CreateEndpointConfig ==
    /\ Running
    /\ Cell = "create_endpoint_config"
    /\ \/ CallRaises("create_endpoint_config", "ClientError")
       \/ /\ CallReturns("create_endpoint_config")
          /\ GotoNext
          /\ UNCHANGED << names, locals, generated_resources, best_candidate,
                          waited_name, invoked_names, env >>
    /\ passed' = [passed EXCEPT
                    !["create_endpoint_config.EndpointConfigName"] = @ \cup { epc_name },
                    !["create_endpoint_config.ModelName"] = @ \cup { VariantModelName }]
    /\ UNCHANGED other_vars

\* sm.create_endpoint(EndpointName=xgb_endpoint_name, EndpointConfigName=epc_name)
CreateEndpoint ==
    /\ Running
    /\ Cell = "create_endpoint"
    /\ \/ CallRaises("create_endpoint", "ClientError")
       \/ /\ CallReturns("create_endpoint")
          /\ ep_status' = "Creating"
          /\ GotoNext
          /\ UNCHANGED << names, locals, generated_resources, best_candidate,
                          waited_name, invoked_names, clock, svc_status, svc_phase,
                          svc_best >>
    /\ passed' = [passed EXCEPT
                    !["create_endpoint.EndpointName"] = @ \cup { xgb_endpoint_name },
                    !["create_endpoint.EndpointConfigName"] = @ \cup { epc_name }]
    /\ UNCHANGED other_vars

\* mutant: a waiter that returns without waiting for InService
WaiterReturnsAtOnce(st) == "return"

\* the endpoint_in_service waiter on one EndpointStatus: it returns on InService,
\* raises WaiterError on Failed, and polls again otherwise
WaiterResult(st) ==
    CASE st = "InService" -> "return"
      [] st = "Failed"    -> "raise"
      [] OTHER            -> "poll"

\* sm.get_waiter('endpoint_in_service').wait(EndpointName=xgb_endpoint_name)
\* (while it polls it may also give up: WaiterError, max attempts exceeded)
WaitEndpoint ==
    /\ Running
    /\ Cell = "wait_endpoint"
    /\ \/ /\ WaiterResult(ep_status) \in { "raise", "poll" }
          /\ CallRaises("endpoint_in_service", "WaiterError")
       \/ /\ WaiterResult(ep_status) = "return"
          /\ CallReturns("endpoint_in_service")
          /\ waited_name' = xgb_endpoint_name
          /\ GotoNext
          /\ UNCHANGED << names, locals, generated_resources, best_candidate,
                          invoked_names, env >>
    /\ passed' = [passed EXCEPT !["endpoint_in_service.EndpointName"] = @ \cup { xgb_endpoint_name }]
    /\ UNCHANGED other_vars

\* resp = sm.describe_endpoint(EndpointName=xgb_endpoint_name); print ...
DescribeEndpoint ==
    /\ Running
    /\ Cell = "describe_endpoint"
    /\ \/ CallRaises("describe_endpoint", "ClientError")
       \/ /\ CallReturns("describe_endpoint")
          /\ GotoNext
          /\ UNCHANGED << names, locals, generated_resources, best_candidate,
                          waited_name, invoked_names, env >>
    /\ passed' = [passed EXCEPT !["describe_endpoint.EndpointName"] = @ \cup { xgb_endpoint_name }]
    /\ UNCHANGED other_vars

\* response = sm_runtime.invoke_endpoint(EndpointName=xgb_endpoint_name, ...)
InvokeEndpoint(c) ==
    /\ Running
    /\ Cell = c
    /\ invoked_names' = invoked_names \cup { xgb_endpoint_name }
    /\ \/ /\ ncalls' = Issue("invoke_endpoint")
          /\ Raise("ClientError")
          /\ UNCHANGED returned
       \/ /\ CallReturns("invoke_endpoint")
          /\ GotoNext
    /\ UNCHANGED << names, locals, generated_resources, best_candidate, waited_name,
                    env >>
    /\ passed' = [passed EXCEPT !["invoke_endpoint.EndpointName"] = @ \cup { xgb_endpoint_name }]
    /\ UNCHANGED other_vars

NotebookStep ==
    \/ PlainCell
    \/ NameJob
    \/ CreateAutoMLJob
    \/ \E c \in PollingCells : PollFirst(c)
    \/ \E c \in PollingCells : PollWhile(c)
    \/ \E c \in PollingCells : PollBody(c)
    \/ \E c \in PollingCells : PollSleep(c)
    \/ \E c \in PollingCells : PollComplete(c)
    \/ \E c \in PollingCells : PollPrintJob(c)
    \/ DescribeJob
    \/ GeneratedResources
    \/ S3Cp
    \/ ListCandidates
    \/ Experiments
    \/ BestCandidate
    \/ CreateModel
    \/ EndpointNames
    \/ CreateEndpointConfig
    \/ CreateEndpoint
    \/ WaitEndpoint
    \/ DescribeEndpoint
    \/ \E c \in InvokeCells : InvokeEndpoint(c)

ServiceStep ==
    \/ Tick
    \/ JobAdvance
    \/ JobCandidate
    \/ JobComplete
    \/ JobEnd
    \/ EndpointAdvance

-----------------------------------------------------------------------------
(* The XGBoost notebook: the conversion of probabilities into classes *)

\* a probability num/den is the pair <<num, den>>
Probabilities == UNION { { << n, d >> : n \in 0..d } : d \in 1..MaxDen }

SeqsUpTo(S, n) == UNION { [1..k -> S] : k \in 0..n }

\* mutant: a threshold that includes 0.5
AtLeastThreshold(p) == 2 * p[1] >= p[2]

\* preds_test > 0.5, for one element
AboveThreshold(p) == 2 * p[1] > p[2]

\* np.where(preds_test > 0.5, 1, 0)
np_where(preds) == [i \in 1..Len(preds) |-> IF AboveThreshold(preds[i]) THEN 1 ELSE 0]

InitXGB ==
    /\ preds_test \in SeqsUpTo(Probabilities, MaxLen)
    /\ preds_test_0_or_1 = << >>
    /\ xpc = "threshold"

\* preds_test_0_or_1 = np.where(preds_test > 0.5, 1, 0)
Threshold ==
    /\ xpc = "threshold"
    /\ preds_test_0_or_1' = np_where(preds_test)
    /\ xpc' = "accuracy"
    /\ UNCHANGED preds_test
    /\ UNCHANGED autopilot_vars
    /\ UNCHANGED << strip_vars, kernel_vars, table_vars >>

-----------------------------------------------------------------------------
(* Specifications *)

\* the conversion cell of the XGBoost notebook is not part of the run
IdleXGB ==
    /\ preds_test = << >>
    /\ preds_test_0_or_1 = << >>
    /\ xpc = "idle"

\* no location is being stripped outside the run
IdleStrip ==
    /\ s3_prefix = ""
    /\ notebook_location = ""
    /\ rstrip_result = ""

\* no kernel run in progress
IdleKernel ==
    /\ notebook = "none"
    /\ kpc = 0
    /\ namespace = {}
    /\ leftover = {}
    /\ stored = {}
    /\ kerr = "none"
    /\ running = "none"
    /\ finished = {}
    /\ training_job = "none"
    /\ files = {}

\* a pandas frame: column labels and rows (an integer label n is written
\* ToString(n)); a series: its name and values
NoFrame == [columns |-> << >>, rows |-> << >>]

NoSeries == [name |-> "", values |-> << >>]

\* load_dataset is not being called
IdleTable ==
    /\ csv_files = << >>
    /\ header = "None"
    /\ data = NoFrame
    /\ labels = NoSeries
    /\ features = NoFrame
    /\ lpc = "idle"

Init ==
    /\ InitAutoPilot
    /\ IdleXGB
    /\ IdleStrip
    /\ IdleKernel
    /\ IdleTable

Next == NotebookStep \/ ServiceStep

\* the AutoPilot notebook against the service
Spec == Init /\ [][Next]_vars

\* the kernel executes the next statement as long as there is one
LiveSpec == Spec /\ WF_vars(NotebookStep)

NextXGB == Threshold

\* any test set of predictions, the AutoPilot notebook not started
InitConversion ==
    /\ InitAutoPilot
    /\ InitXGB
    /\ IdleStrip
    /\ IdleKernel
    /\ IdleTable

\* the conversion cell of the XGBoost notebook on every test set
SpecXGB == InitConversion /\ [][NextXGB]_vars

-----------------------------------------------------------------------------
(* .rstrip(...) of the generated_resources cell, on any location *)

\* the argument of .rstrip(...) in the cell
NotebookName == "notebooks/SageMakerAutopilotDataExplorationNotebook.ipynb"

\* characters of a prefix, some of them in NotebookName
Alphabet == { "p", "r", "-", "1", "/" }

RECURSIVE StringsUpTo(_)
StringsUpTo(n) ==
    IF n = 0 THEN { "" }
    ELSE LET S == StringsUpTo(n - 1) IN S \cup { s \o c : s \in S, c \in Alphabet }

\* an S3 prefix ends with "/"
Prefixes == { s \o "/" : s \in StringsUpTo(MaxPrefix) }

\* the service reports the notebook's location under some prefix
InitStrip ==
    /\ InitAutoPilot
    /\ IdleXGB
    /\ s3_prefix \in Prefixes
    /\ notebook_location = s3_prefix \o NotebookName
    /\ rstrip_result = Unbound
    /\ IdleKernel
    /\ IdleTable

\* generated_resources = <location>.rstrip('notebooks/SageMaker...ipynb')
Strip ==
    /\ rstrip_result = Unbound
    /\ rstrip_result' = rstrip(notebook_location, NotebookName)
    /\ UNCHANGED << s3_prefix, notebook_location >>
    /\ UNCHANGED autopilot_vars
    /\ UNCHANGED << xgb_vars, kernel_vars, table_vars >>

NextStrip == Strip

SpecStrip == InitStrip /\ [][NextStrip]_vars

-----------------------------------------------------------------------------
(* Either notebook run top to bottom in a kernel: which names each cell   *)
(* needs and which it binds.  A cell's reads are the names it uses before *)
(* binding them itself, a function's globals being read where it is       *)
(* called; shell holds the $names of its ! lines, which the shell expands *)
(* without raising.                                                        *)

XGBoostCells == <<
    [ line |-> 9,
      restores |-> {},
      reads |-> {},
      binds |-> {},
      shell |-> {} ],
    [ line |-> 19,
      restores |-> {},
      reads |-> {},
      binds |-> {"boto3", "bucket", "pd", "region", "role", "sagemaker", "sess", "sm"},
      shell |-> {} ],
    [ line |-> 37,
      restores |-> {"spark_processing_job_s3_output_prefix"},
      reads |-> {},
      binds |-> {},
      shell |-> {} ],
    [ line |-> 46,
      restores |-> {},
      reads |-> {"spark_processing_job_s3_output_prefix"},
      binds |-> {},
      shell |-> {} ],
    [ line |-> 62,
      restores |-> {},
      reads |-> {"balanced_tfidf_without_header_test_s3_uri", "balanced_tfidf_without_header_train_s3_uri", "balanced_tfidf_without_header_validation_s3_uri", "sagemaker", "spark_processing_job_s3_output_prefix"},
      binds |-> {"balanced_tfidf_without_header_test_path", "balanced_tfidf_without_header_train_path", "balanced_tfidf_without_header_validation_path", "prefix_test", "prefix_train", "prefix_validation", "s3_input_test_data", "s3_input_train_data", "s3_input_validation_data"},
      shell |-> {} ],
    [ line |-> 85,
      restores |-> {},
      reads |-> {"bucket", "region", "role", "sagemaker", "sess"},
      binds |-> {"builtin_container_uri", "get_image_uri", "json", "model_output_path", "xgb_estimator"},
      shell |-> {} ],
    [ line |-> 117,
      restores |-> {},
      reads |-> {"s3_input_train_data", "s3_input_validation_data", "xgb_estimator"},
      binds |-> {},
      shell |-> {} ],
    [ line |-> 130,
      restores |-> {},
      reads |-> {"xgb_estimator"},
      binds |-> {"training_job_name"},
      shell |-> {} ],
    [ line |-> 140,
      restores |-> {},
      reads |-> {},
      binds |-> {},
      shell |-> {} ],
    [ line |-> 159,
      restores |-> {},
      reads |-> {},
      binds |-> {},
      shell |-> {"model_output_path", "training_job_name"} ],
    [ line |-> 169,
      restores |-> {},
      reads |-> {},
      binds |-> {"pkl", "tar", "tarfile"},
      shell |-> {} ],
    [ line |-> 185,
      restores |-> {},
      reads |-> {},
      binds |-> {},
      shell |-> {} ],
    [ line |-> 194,
      restores |-> {},
      reads |-> {},
      binds |-> {"model_dir", "model_path", "os", "pkl", "xgb_estimator_restored"},
      shell |-> {} ],
    [ line |-> 213,
      restores |-> {},
      reads |-> {"xgb_estimator_restored"},
      binds |-> {"ax", "fig", "plt", "xgboost"},
      shell |-> {} ],
    [ line |-> 250,
      restores |-> {},
      reads |-> {},
      binds |-> {},
      shell |-> {"balanced_tfidf_without_header_test_s3_uri"} ],
    [ line |-> 261,
      restores |-> {},
      reads |-> {},
      binds |-> {},
      shell |-> {"balanced_tfidf_without_header_test_path", "balanced_tfidf_without_header_test_s3_uri"} ],
    [ line |-> 270,
      restores |-> {},
      reads |-> {},
      binds |-> {"glob", "load_dataset", "pd"},
      shell |-> {} ],
    [ line |-> 294,
      restores |-> {},
      reads |-> {"balanced_tfidf_without_header_test_path", "glob", "load_dataset", "pd"},
      binds |-> {"X_test", "y_test"},
      shell |-> {} ],
    [ line |-> 306,
      restores |-> {},
      reads |-> {"X_test"},
      binds |-> {},
      shell |-> {} ],
    [ line |-> 315,
      restores |-> {},
      reads |-> {"X_test", "xgb_estimator_restored"},
      binds |-> {"DMatrix", "preds_test"},
      shell |-> {} ],
    [ line |-> 330,
      restores |-> {},
      reads |-> {"preds_test"},
      binds |-> {},
      shell |-> {} ],
    [ line |-> 346,
      restores |-> {},
      reads |-> {"preds_test"},
      binds |-> {"np", "preds_test_0_or_1"},
      shell |-> {} ],
    [ line |-> 357,
      restores |-> {},
      reads |-> {"preds_test_0_or_1", "y_test"},
      binds |-> {"accuracy_score", "classification_report", "confusion_matrix", "precision_score"},
      shell |-> {} ],
    [ line |-> 369,
      restores |-> {},
      reads |-> {"classification_report", "preds_test_0_or_1", "y_test"},
      binds |-> {},
      shell |-> {} ],
    [ line |-> 378,
      restores |-> {},
      reads |-> {"confusion_matrix", "preds_test_0_or_1", "y_test"},
      binds |-> {"df_cm_test"},
      shell |-> {} ],
    [ line |-> 390,
      restores |-> {},
      reads |-> {"df_cm_test"},
      binds |-> {"ax", "fig", "itertools", "np", "plot_conf_mat", "plt"},
      shell |-> {} ],
    [ line |-> 430,
      restores |-> {},
      reads |-> {"preds_test_0_or_1", "y_test"},
      binds |-> {"auc", "fpr", "metrics", "plt", "tpr"},
      shell |-> {} ]
>>

AutoPilotCells == <<
    [ line |-> 43,
      restores |-> {},
      reads |-> {},
      binds |-> {"boto3", "bucket", "pd", "region", "role", "sagemaker", "sess", "sm"},
      shell |-> {} ],
    [ line |-> 76,
      restores |-> {"train_s3_uri"},
      reads |-> {"train_s3_uri"},
      binds |-> {},
      shell |-> {} ],
    [ line |-> 95,
      restores |-> {},
      reads |-> {},
      binds |-> {},
      shell |-> {"train_s3_uri"} ],
    [ line |-> 120,
      restores |-> {},
      reads |-> {"bucket"},
      binds |-> {"autopilot_model_output_s3_uri", "prefix_model_output"},
      shell |-> {} ],
    [ line |-> 133,
      restores |-> {},
      reads |-> {"autopilot_model_output_s3_uri", "train_s3_uri"},
      binds |-> {"input_data_config", "job_config", "max_candidates", "output_data_config"},
      shell |-> {} ],
    [ line |-> 182,
      restores |-> {},
      reads |-> {},
      binds |-> {"auto_ml_job_name", "gmtime", "sleep", "strftime", "timestamp_suffix"},
      shell |-> {} ],
    [ line |-> 220,
      restores |-> {},
      reads |-> {"auto_ml_job_name", "input_data_config", "job_config", "output_data_config", "role", "sm"},
      binds |-> {},
      shell |-> {} ],
    [ line |-> 269,
      restores |-> {},
      reads |-> {"auto_ml_job_name", "sleep", "sm"},
      binds |-> {"job", "job_sec_status", "job_status", "time"},
      shell |-> {} ],
    [ line |-> 305,
      restores |-> {},
      reads |-> {"auto_ml_job_name", "sm"},
      binds |-> {"job"},
      shell |-> {} ],
    [ line |-> 332,
      restores |-> {},
      reads |-> {"auto_ml_job_name", "sleep", "sm"},
      binds |-> {"job", "job_sec_status", "job_status"},
      shell |-> {} ],
    [ line |-> 374,
      restores |-> {},
      reads |-> {"auto_ml_job_name", "sleep", "sm"},
      binds |-> {"job", "job_sec_status", "job_status"},
      shell |-> {} ],
    [ line |-> 428,
      restores |-> {},
      reads |-> {"job"},
      binds |-> {"generated_resources"},
      shell |-> {} ],
    [ line |-> 440,
      restores |-> {},
      reads |-> {},
      binds |-> {},
      shell |-> {"generated_resources"} ],
    [ line |-> 470,
      restores |-> {},
      reads |-> {"auto_ml_job_name", "sm"},
      binds |-> {"candidate", "candidates", "index"},
      shell |-> {} ],
    [ line |-> 492,
      restores |-> {},
      reads |-> {"auto_ml_job_name", "sess"},
      binds |-> {"ExperimentAnalytics", "TrainingJobAnalytics", "df", "exp"},
      shell |-> {} ],
    [ line |-> 524,
      restores |-> {},
      reads |-> {"auto_ml_job_name", "sm"},
      binds |-> {"best_candidate", "best_candidate_identifier"},
      shell |-> {} ],
    [ line |-> 538,
      restores |-> {},
      reads |-> {"best_candidate"},
      binds |-> {},
      shell |-> {} ],
    [ line |-> 554,
      restores |-> {},
      reads |-> {"best_candidate"},
      binds |-> {"container"},
      shell |-> {} ],
    [ line |-> 582,
      restores |-> {},
      reads |-> {"best_candidate", "role", "sm", "timestamp_suffix"},
      binds |-> {"model_arn", "model_name"},
      shell |-> {} ],
    [ line |-> 597,
      restores |-> {},
      reads |-> {"gmtime", "strftime"},
      binds |-> {"epc_name", "timestamp_suffix", "variant_name", "xgb_endpoint_name"},
      shell |-> {} ],
    [ line |-> 615,
      restores |-> {},
      reads |-> {"epc_name", "model_name", "sm", "variant_name"},
      binds |-> {"ep_config"},
      shell |-> {} ],
    [ line |-> 628,
      restores |-> {},
      reads |-> {"epc_name", "sm", "xgb_endpoint_name"},
      binds |-> {"create_endpoint_response"},
      shell |-> {} ],
    [ line |-> 647,
      restores |-> {},
      reads |-> {"sm", "xgb_endpoint_name"},
      binds |-> {},
      shell |-> {} ],
    [ line |-> 656,
      restores |-> {},
      reads |-> {"sm", "xgb_endpoint_name"},
      binds |-> {"resp", "status"},
      shell |-> {} ],
    [ line |-> 677,
      restores |-> {},
      reads |-> {"boto3"},
      binds |-> {"sm_runtime"},
      shell |-> {} ],
    [ line |-> 686,
      restores |-> {},
      reads |-> {"sm_runtime", "xgb_endpoint_name"},
      binds |-> {"csv_line_predict_positive", "response", "response_body"},
      shell |-> {} ],
    [ line |-> 702,
      restores |-> {},
      reads |-> {"sm_runtime", "xgb_endpoint_name"},
      binds |-> {"csv_line_predict_negative", "response", "response_body"},
      shell |-> {} ],
    [ line |-> 731,
      restores |-> {},
      reads |-> {},
      binds |-> {"test_path"},
      shell |-> {} ],
    [ line |-> 740,
      restores |-> {},
      reads |-> {},
      binds |-> {},
      shell |-> {"test_path"} ],
    [ line |-> 749,
      restores |-> {},
      reads |-> {},
      binds |-> {"load_dataset"},
      shell |-> {} ],
    [ line |-> 770,
      restores |-> {},
      reads |-> {"load_dataset", "pd", "test_path"},
      binds |-> {"X_test", "y_test"},
      shell |-> {} ],
    [ line |-> 780,
      restores |-> {},
      reads |-> {"X_test"},
      binds |-> {},
      shell |-> {} ],
    [ line |-> 789,
      restores |-> {},
      reads |-> {"y_test"},
      binds |-> {},
      shell |-> {} ],
    [ line |-> 800,
      restores |-> {},
      reads |-> {"y_test"},
      binds |-> {},
      shell |-> {} ],
    [ line |-> 816,
      restores |-> {},
      reads |-> {"X_test", "sm_runtime", "xgb_endpoint_name"},
      binds |-> {"payload", "response"},
      shell |-> {} ],
    [ line |-> 830,
      restores |-> {},
      reads |-> {"response"},
      binds |-> {"np", "preds_test"},
      shell |-> {} ],
    [ line |-> 842,
      restores |-> {},
      reads |-> {"preds_test"},
      binds |-> {},
      shell |-> {} ],
    [ line |-> 858,
      restores |-> {},
      reads |-> {"preds_test", "y_test"},
      binds |-> {"accuracy_score", "classification_report", "confusion_matrix", "precision_score"},
      shell |-> {} ],
    [ line |-> 870,
      restores |-> {},
      reads |-> {"confusion_matrix", "preds_test", "y_test"},
      binds |-> {"df_cm_test", "pd", "plt", "sn"},
      shell |-> {} ],
    [ line |-> 884,
      restores |-> {},
      reads |-> {"df_cm_test", "np"},
      binds |-> {"ax", "fig", "itertools", "plot_conf_mat", "plt"},
      shell |-> {} ],
    [ line |-> 924,
      restores |-> {},
      reads |-> {"preds_test", "y_test"},
      binds |-> {"auc", "fpr", "metrics", "plt", "tpr"},
      shell |-> {} ]
>>

Notebooks == { "xgboost", "autopilot" }

KCells == IF notebook = "xgboost" THEN XGBoostCells ELSE AutoPilotCells

KRunning == kerr = "none" /\ kpc <= Len(KCells)

\* the cell the kernel is at
KCell == KCells[kpc]

\* names that %store wrote in the notebooks run before these
StoredNames == { "spark_processing_job_s3_output_prefix", "train_s3_uri" }

\* names no cell of the notebook binds, which an earlier session may have left
Leftovers == { "balanced_tfidf_without_header_train_s3_uri",
               "balanced_tfidf_without_header_validation_s3_uri",
               "balanced_tfidf_without_header_test_s3_uri" }

\* the namespace once the cell's %store -r lines have run: a name is restored
\* only if it was stored
Restored == namespace \cup (KCell.restores \cap stored)

\* cells of the XGBoost notebook with an effect outside the namespace
FitLine == 117
DownloadLine == 159
ExtractLine == 169
LoadLine == 194
EffectLines == { FitLine, DownloadLine, ExtractLine, LoadLine }

HasEffect == notebook = "xgboost" /\ KCell.line \in EffectLines

TrainingTerminal == { "Completed", "Failed", "Stopped" }

\* a kernel about to run the first cell; fresh when leftover is empty
InitKernel ==
    /\ InitAutoPilot
    /\ IdleXGB
    /\ IdleStrip
    /\ IdleTable
    /\ notebook \in Notebooks
    /\ kpc = 1
    /\ leftover \in SUBSET Leftovers
    /\ namespace = leftover
    /\ stored \in SUBSET StoredNames
    /\ kerr = "none"
    /\ running = "none"
    /\ finished = {}
    /\ training_job = "none"
    /\ files = {}

\* a cell that reads a name the kernel does not hold: the run stops there
\* (what the cell bound before the failing statement is of no use any more)
NameError ==
    /\ KRunning
    /\ running = "none"
    /\ ~ (KCell.reads \subseteq Restored)
    /\ kerr' = "NameError"
    /\ namespace' = Restored
    /\ UNCHANGED << notebook, kpc, leftover, stored, running, finished, training_job, files >>
    /\ UNCHANGED << autopilot_vars, xgb_vars, strip_vars, table_vars >>

\* any other cell: its names resolve, it binds what it assigns, imports and defines
ExecCell ==
    /\ KRunning
    /\ running = "none"
    /\ ~ HasEffect
    /\ KCell.reads \subseteq Restored
    /\ namespace' = Restored \cup KCell.binds
    /\ kpc' = kpc + 1
    /\ UNCHANGED << notebook, leftover, stored, kerr, running, finished, training_job, files >>
    /\ UNCHANGED << autopilot_vars, xgb_vars, strip_vars, table_vars >>

\* the kernel is at the cell of that line and its names resolve
AtLine(l) ==
    /\ KRunning
    /\ notebook = "xgboost"
    /\ KCell.line = l
    /\ KCell.reads \subseteq Restored

\* xgb_estimator.fit({...}): the training job is created, or the call raises
FitSubmit ==
    /\ AtLine(FitLine)
    /\ running = "none"
    /\ \/ /\ kerr' = "ClientError"
          /\ UNCHANGED << running, training_job >>
       \/ /\ training_job' = "InProgress"
          /\ running' = "fit"
          /\ UNCHANGED kerr
    /\ UNCHANGED << notebook, kpc, namespace, leftover, stored, finished, files >>
    /\ UNCHANGED << autopilot_vars, xgb_vars, strip_vars, table_vars >>

\* the training job ends, at the service
TrainingAdvance ==
    /\ training_job = "InProgress"
    /\ training_job' \in TrainingTerminal
    /\ UNCHANGED << notebook, kpc, namespace, leftover, stored, kerr, running, finished, files >>
    /\ UNCHANGED << autopilot_vars, xgb_vars, strip_vars, table_vars >>

\* mutant: fit(..., wait=False) returns as soon as the job is created
FitReturnNoWait ==
    /\ AtLine(FitLine)
    /\ running = "fit"
    /\ running' = "none"
    /\ finished' = finished \cup { "fit" }
    /\ kpc' = kpc + 1
    /\ UNCHANGED << notebook, namespace, leftover, stored, kerr, training_job, files >>
    /\ UNCHANGED << autopilot_vars, xgb_vars, strip_vars, table_vars >>

\* fit() with wait left at its default: it returns when the job has ended, and
\* raises when the job has failed
FitReturn ==
    /\ AtLine(FitLine)
    /\ running = "fit"
    /\ training_job \in TrainingTerminal
    /\ running' = "none"
    /\ IF training_job = "Failed"
       THEN /\ kerr' = "UnexpectedStatusException"
            /\ UNCHANGED << finished, kpc >>
       ELSE /\ finished' = finished \cup { "fit" }
            /\ kpc' = kpc + 1
            /\ UNCHANGED kerr
    /\ UNCHANGED << notebook, namespace, leftover, stored, training_job, files >>
    /\ UNCHANGED << autopilot_vars, xgb_vars, strip_vars, table_vars >>

\* !aws s3 cp $model_output_path/$training_job_name/output/model.tar.gz ...
DownloadStart ==
    /\ AtLine(DownloadLine)
    /\ running = "none"
    /\ running' = "download"
    /\ UNCHANGED << notebook, kpc, namespace, leftover, stored, kerr, finished, training_job, files >>
    /\ UNCHANGED << autopilot_vars, xgb_vars, strip_vars, table_vars >>

\* the copy ends: the file is there if the job wrote it and the path was right;
\* a failed shell command raises nothing
DownloadEnd ==
    /\ AtLine(DownloadLine)
    /\ running = "download"
    /\ running' = "none"
    /\ files' = IF training_job = "Completed" /\ KCell.shell \subseteq namespace
                THEN files \cup { "model.tar.gz" }
                ELSE files
    /\ finished' = finished \cup { "download" }
    /\ kpc' = kpc + 1
    /\ UNCHANGED << notebook, namespace, leftover, stored, kerr, training_job >>
    /\ UNCHANGED << autopilot_vars, xgb_vars, strip_vars, table_vars >>

\* tar = tarfile.open('./models/built-in/model.tar.gz')
ExtractStart ==
    /\ AtLine(ExtractLine)
    /\ running = "none"
    /\ IF "model.tar.gz" \in files
       THEN running' = "extract" /\ UNCHANGED kerr
       ELSE kerr' = "FileNotFoundError" /\ UNCHANGED running
    /\ UNCHANGED << notebook, kpc, namespace, leftover, stored, finished, training_job, files >>
    /\ UNCHANGED << autopilot_vars, xgb_vars, strip_vars, table_vars >>

\* tar.extractall(path='./models/built-in/'); tar.close()
ExtractEnd ==
    /\ AtLine(ExtractLine)
    /\ running = "extract"
    /\ running' = "none"
    /\ files' = files \cup { "xgboost-model" }
    /\ namespace' = namespace \cup KCell.binds
    /\ finished' = finished \cup { "extract" }
    /\ kpc' = kpc + 1
    /\ UNCHANGED << notebook, leftover, stored, kerr, training_job >>
    /\ UNCHANGED << autopilot_vars, xgb_vars, strip_vars, table_vars >>

\* pkl.load(open(model_path, 'rb'))
LoadStart ==
    /\ AtLine(LoadLine)
    /\ running = "none"
    /\ IF "xgboost-model" \in files
       THEN running' = "load" /\ UNCHANGED kerr
       ELSE kerr' = "FileNotFoundError" /\ UNCHANGED running
    /\ UNCHANGED << notebook, kpc, namespace, leftover, stored, finished, training_job, files >>
    /\ UNCHANGED << autopilot_vars, xgb_vars, strip_vars, table_vars >>

\* xgb_estimator_restored = ...
LoadEnd ==
    /\ AtLine(LoadLine)
    /\ running = "load"
    /\ running' = "none"
    /\ namespace' = namespace \cup KCell.binds
    /\ finished' = finished \cup { "load" }
    /\ kpc' = kpc + 1
    /\ UNCHANGED << notebook, leftover, stored, kerr, training_job, files >>
    /\ UNCHANGED << autopilot_vars, xgb_vars, strip_vars, table_vars >>

NextKernel ==
    \/ NameError
    \/ ExecCell
    \/ FitSubmit
    \/ TrainingAdvance
    \/ FitReturn
    \/ DownloadStart
    \/ DownloadEnd
    \/ ExtractStart
    \/ ExtractEnd
    \/ LoadStart
    \/ LoadEnd

\* either notebook, run all, in a fresh or a used kernel
SpecKernel == InitKernel /\ [][NextKernel]_vars

-----------------------------------------------------------------------------
(* load_dataset(path, sep, header), the same in both notebooks but for the *)
(* XGBoost notebook reading every CSV file under path and concatenating    *)

ColumnNames == { "a", "b" }

\* the cell of a line after the first: every one is different
CellValue(f, r, c) == "f" \o ToString(f) \o "r" \o ToString(r) \o "c" \o ToString(c)

\* the files of one data set: the same first line, the same number of columns
CsvFiles ==
    UNION { { [f \in 1..n |-> << first >> \o [r \in 1..nrows[f] |->
                                              [c \in 1..k |-> CellValue(f, r, c)]]]
              : first \in [1..k -> ColumnNames], nrows \in [1..n -> 0..MaxRows] }
            : k \in 1..MaxCols, n \in 1..MaxFiles } 

\* how many of the first i-1 names equal the i-th
Earlier(line, i) == Cardinality({ j \in 1..(i - 1) : line[j] = line[i] })

\* pandas makes repeated names of a header line unique: a, a.1, a.2, ...
MangleDupes(line) ==
    [i \in 1..Len(line) |->
        IF Earlier(line, i) = 0 THEN line[i]
        ELSE line[i] \o "." \o ToString(Earlier(line, i))]

\* mutant: the new labels counted from 1
RangeFromOne(n) == [i \in 1..n |-> ToString(i)]

\* list(range(0, n))
Range(n) == [i \in 1..n |-> ToString(i - 1)]

\* pd.read_csv(file, sep=sep, header=header)
read_csv(lines, h) ==
    IF h = "None"
    THEN [columns |-> Range(Len(lines[1])), rows |-> lines]
    ELSE [columns |-> MangleDupes(lines[1]), rows |-> Tail(lines)]

\* pd.concat(frames, ignore_index=True) of frames with the same columns
RECURSIVE concat(_)
concat(frames) ==
    IF Len(frames) = 1 THEN frames[1]
    ELSE LET rest == concat(Tail(frames))
         IN  [columns |-> frames[1].columns, rows |-> frames[1].rows \o rest.rows]

\* the positions from i on of the columns whose label is not the given one
RECURSIVE Positions(_, _, _)
Positions(columns, label, i) ==
    IF i > Len(columns) THEN << >>
    ELSE (IF columns[i] # label THEN << i >> ELSE << >>)
         \o Positions(columns, label, i + 1)

\* data.iloc[:, 0]
iloc0(d) == [name |-> d.columns[1], values |-> [r \in 1..Len(d.rows) |-> d.rows[r][1]]]

\* data.drop(label, axis=1): every column of that label goes
drop(d, label) ==
    LET keep == Positions(d.columns, label, 1)
    IN  [columns |-> [i \in 1..Len(keep) |-> d.columns[keep[i]]],
         rows |-> [r \in 1..Len(d.rows) |-> [i \in 1..Len(keep) |-> d.rows[r][keep[i]]]]]

\* if header==None: features.columns = list(range(0, len(features.columns)))
Renamed(f, h) ==
    IF h = "None" THEN [f EXCEPT !.columns = Range(Len(f.columns))] ELSE f

InitTable ==
    /\ InitAutoPilot
    /\ IdleXGB
    /\ IdleStrip
    /\ IdleKernel
    /\ csv_files \in CsvFiles
    /\ header \in { "None", "0" }
    /\ data = NoFrame
    /\ labels = NoSeries
    /\ features = NoFrame
    /\ lpc = "call"

\* X_test, y_test = load_dataset(path=..., sep=',', header=...)
load_dataset ==
    /\ lpc = "call"
    /\ data' = concat([f \in 1..Len(csv_files) |-> read_csv(csv_files[f], header)])
    /\ labels' = iloc0(data')
    /\ features' = Renamed(drop(data', data'.columns[1]), header)
    /\ lpc' = "returned"
    /\ UNCHANGED << csv_files, header >>
    /\ UNCHANGED << autopilot_vars, xgb_vars, strip_vars, kernel_vars >>

NextTable == load_dataset

SpecTable == InitTable /\ [][NextTable]_vars

-----------------------------------------------------------------------------
(* Properties of the polling cells *)

LoopPositions == { "while", "body", "sleep" }

InLoop == Cell \in PollingCells /\ at \in LoopPositions

\* the most recent describe_auto_ml_job result is (InProgress, the cell's target)
OnTarget == job_status = "InProgress" /\ job_sec_status = PollTarget(Cell)

\* C1: in each polling cell the while loop is left only from its test, and exactly
\* when the most recent describe result is not (InProgress, target); a new describe
\* is made only when that result is (InProgress, target); nothing else (no
\* iteration cap, no timeout) takes the cell out of its loop.
C1_LoopLeftExactlyOffTarget ==
    [][ InLoop =>
          /\ pc' = pc
          /\ at' \in LoopPositions \cup { "complete" }
          /\ (at' = "complete" => at = "while" /\ ~OnTarget)
          /\ (at = "while" => at' \in { "while", "body", "complete" })
          /\ (at = "while" /\ at' = "body" => OnTarget)
          /\ (at = "while" /\ at' = "while" => UNCHANGED notebook_vars)
      ]_vars

\* the Feature Engineering loop was left, after two or more iterations, on a result
\* that is still InProgress but no longer FeatureEngineering
C1_Witness ==
    /\ Cell = "feature_engineering"
    /\ at = "complete"
    /\ iter >= 2
    /\ job_status = "InProgress"
    /\ job_sec_status = "ModelTuning"

PollingTerminates(c) == (pc = CellIndex(c)) ~> (pc > CellIndex(c))

ServiceStaysOn(target) == <>[](svc_status = "InProgress" /\ svc_phase = target)

\* C2: under LiveSpec, unless a call raises or the service stays on (InProgress,
\* target) for ever, each polling cell that is started runs to the end of its
\* final print(job).
C2_PollingCellsTerminate ==
    /\ \/ <>(halted # "none")
       \/ ServiceStaysOn("AnalyzingData")
       \/ PollingTerminates("analyzing_data")
    /\ \/ <>(halted # "none")
       \/ ServiceStaysOn("FeatureEngineering")
       \/ PollingTerminates("feature_engineering")
    /\ \/ <>(halted # "none")
       \/ ServiceStaysOn("ModelTuning")
       \/ PollingTerminates("model_tuning")

\* the Model Tuning cell is at its final print(job) after it polled
C2_Witness ==
    /\ Cell = "model_tuning"
    /\ at = "print_job"
    /\ iter >= 1
    /\ halted = "none"

\* C8: every iteration of a polling loop makes one describe_auto_ml_job call and
\* then one sleep of 30 seconds, the last iteration included, whatever the
\* iteration count.
C8_OneDescribeOneSleepOf30 ==
    (Cell \in PollingCells /\ iter > 0) =>
        /\ at = "body" => (iter_calls = 0 /\ iter_slept = << >>)
        /\ at = "sleep" => (iter_calls = 1 /\ iter_slept = << >>)
        /\ at \in { "while", "complete", "print_job" } =>
               (iter_calls = 1 /\ iter_slept = << 30 >>)

\* the Model Tuning loop ended on the result of its third or later iteration
C8_Witness ==
    /\ Cell = "model_tuning"
    /\ at = "complete"
    /\ iter >= 3
    /\ job_status = "Completed"
    /\ iter_slept = << 30 >>

\* C10: no "... complete" message is printed while the most recently fetched
\* AutoMLJobStatus is Failed or Stopped.
C10_NoCompleteMessageAfterFailure ==
    ~ /\ \E i \in 1..Len(out) : out[i] \in CompleteMessages
      /\ job_status \in { "Failed", "Stopped" }

-----------------------------------------------------------------------------
(* Properties of the run as a whole *)

\* the order the operations are to be issued in
ServiceOrder ==
    << "create_auto_ml_job", "describe_auto_ml_job", "s3_cp", "create_model",
       "create_endpoint_config", "create_endpoint", "endpoint_in_service",
       "invoke_endpoint" >>

\* C3: create_auto_ml_job, status polling, artifact download, create_model,
\* create_endpoint_config, create_endpoint, the endpoint_in_service waiter and
\* invoke_endpoint are issued in this order: whenever one of them has been issued,
\* every earlier one has already returned.
C3_OperationsInOrder ==
    \A i, j \in 1..Len(ServiceOrder) :
        (i < j /\ ncalls[ServiceOrder[j]] > 0) => ServiceOrder[i] \in returned

\* a run went through to its end and its invoke_endpoint calls returned
C3_Witness ==
    /\ Done
    /\ \A i \in 1..Len(ServiceOrder) : ServiceOrder[i] \in returned

\* C4: invoke_endpoint is called only on the endpoint name the waiter returned
\* successfully for, with the endpoint InService; after a waiter error there is no
\* invoke_endpoint call.
C4_InvokeOnlyAfterInService ==
    /\ invoked_names # {} =>
          /\ invoked_names = { waited_name }
          /\ waited_name = xgb_endpoint_name
          /\ waited_name # Unbound
          /\ ep_status = "InService"
    /\ halted = "WaiterError" => (invoked_names = {} /\ ncalls["invoke_endpoint"] = 0)

\* the endpoint has been invoked twice or more
C4_Witness ==
    /\ ncalls["invoke_endpoint"] >= 2
    /\ invoked_names = { xgb_endpoint_name }
    /\ Cell = "invoke_test"

\* C5: when the run is at the best-candidate cell or between it and create_model,
\* the AutoML job is Completed.
C5_BestCandidateOnlyWhenCompleted ==
    (halted = "none" /\ pc >= CellIndex("best_candidate") /\ pc <= CellIndex("create_model"))
        => svc_status = "Completed"

\* C6: create_auto_ml_job is called once: never before its cell, once from then
\* on; a job seen Failed or Stopped is still in that status at the service (nothing
\* submits or starts it again).
C6_JobCreatedOnceNeverResubmitted ==
    /\ ncalls["create_auto_ml_job"] <= 1
    /\ pc > CellIndex("create_auto_ml_job") => ncalls["create_auto_ml_job"] = 1
    /\ pc < CellIndex("create_auto_ml_job") => ncalls["create_auto_ml_job"] = 0
    /\ job.AutoMLJobStatus \in { "Failed", "Stopped" } => svc_status = job.AutoMLJobStatus
    /\ job_status \in { "Failed", "Stopped" } => svc_status = job_status

\* the three polling cells have run on a job that failed or was stopped
C6_Witness ==
    /\ Cell = "generated_resources"
    /\ job_status \in { "Failed", "Stopped" }
    /\ svc_status = job_status
    /\ ncalls["create_auto_ml_job"] = 1

\* C7: at the artifact-location cell with a job description that has no
\* AutoMLJobArtifacts key, the only step of the notebook is the KeyError: the run
\* stays in that cell, generated_resources stays unassigned, the download is
\* never issued, and the KeyError is never cleared.
C7_MissingArtifactsRaiseKeyError ==
    [][ (Cell = "generated_resources" /\ ~job.AutoMLJobArtifacts) =>
          /\ pc' = pc
          /\ generated_resources = Unbound
          /\ generated_resources' = Unbound
          /\ halted \in { "none", "KeyError" }
          /\ halted' \in { halted, "KeyError" }
          /\ (halted = "KeyError" => halted' = "KeyError")
          /\ ncalls'["s3_cp"] = 0
          /\ job' = job
      ]_vars

\* the KeyError of the recorded run: the job failed while its data was analysed
C7_Witness ==
    /\ Cell = "generated_resources"
    /\ halted = "KeyError"
    /\ ~job.AutoMLJobArtifacts
    /\ job.AutoMLJobStatus = "Failed"
    /\ generated_resources = Unbound

-----------------------------------------------------------------------------
(* Properties of the XGBoost notebook *)

\* C9: the classes have the length and order of the probabilities, each is 0 or 1,
\* and a class is 1 exactly when its probability num/den is greater than 1/2
\* (so 1/2 itself gives 0).
C9_ThresholdStrictlyAboveHalf ==
    xpc = "accuracy" =>
        /\ Len(preds_test_0_or_1) = Len(preds_test)
        /\ \A i \in 1..Len(preds_test) :
              /\ preds_test_0_or_1[i] \in { 0, 1 }
              /\ preds_test_0_or_1[i] = 1 <=> preds_test[i][1] * 2 > preds_test[i][2]
              /\ preds_test[i][1] * 2 = preds_test[i][2] => preds_test_0_or_1[i] = 0

\* a test set holding exactly 0.5 and a probability above it has been converted
C9_Witness ==
    /\ xpc = "accuracy"
    /\ preds_test = << << 1, 2 >>, << 3, 4 >> >>
    /\ preds_test_0_or_1 = << 0, 1 >>

-----------------------------------------------------------------------------
(* Properties of the polling cells taken together *)

\* C11: once the Model Training and Tuning cell has returned, the job is no
\* longer InProgress at the service.
C11_TuningCellReturnsOnlyWhenFinished ==
    pc > CellIndex("model_tuning") => svc_status # "InProgress"

LaterPollingCells == { "feature_engineering", "model_tuning" }

FirstDescribeFailed ==
    /\ Cell \in LaterPollingCells
    /\ at = "start"
    /\ at' # "start"
    /\ job_status' \in { "Failed", "Stopped" }

OnlyStatusesPrinted ==
    /\ pc' = pc
    /\ at' = "print_job"
    /\ out' = << job_status', job_sec_status' >>
    /\ iter' = 0
    /\ iter_calls' = 0
    /\ iter_slept' = << >>

AtPrintJobAfterFailure ==
    /\ Cell \in LaterPollingCells
    /\ at = "print_job"
    /\ iter = 0
    /\ job_status \in { "Failed", "Stopped" }

CellEndsWithoutCall ==
    \/ UNCHANGED notebook_vars
    \/ (pc' = pc + 1 /\ ncalls' = ncalls /\ halted' = halted /\ job' = job)

\* C12: when the first describe_auto_ml_job of the Feature Engineering or Model
\* Tuning cell returns Failed or Stopped, the cell goes straight to print(job)
\* having printed the two status strings and nothing else, with no iteration and
\* no sleep; print(job) then ends the cell without another call.
C12_FailedFirstDescribeOnlyPrints ==
    [][ (FirstDescribeFailed => OnlyStatusesPrinted)
        /\ (AtPrintJobAfterFailure => CellEndsWithoutCall) ]_vars

\* the Model Tuning cell found the job Stopped at its first describe
C12_Witness ==
    /\ Cell = "model_tuning"
    /\ at = "print_job"
    /\ iter = 0
    /\ job_status = "Stopped"
    /\ out = << "Stopped", "Stopped" >>

-----------------------------------------------------------------------------
(* The location of the generated resources *)

\* C13: for a DataExplorationNotebookLocation that is a prefix P followed by
\* 'notebooks/SageMakerAutopilotDataExplorationNotebook.ipynb', the value
\* assigned to generated_resources is exactly P.
C13_GeneratedResourcesIsPrefix ==
    rstrip_result # Unbound => rstrip_result = s3_prefix

-----------------------------------------------------------------------------
(* Names in the kernel *)

\* the names of the cell the kernel is at, Python's and the shell's, are bound
ReadsBound ==
    (KCell.reads \cup KCell.shell) \subseteq Restored

\* C14: in either notebook run top to bottom in a fresh kernel (what the earlier
\* notebooks stored being there for %store -r), every name a cell reads has been
\* bound before the cell reads it.
C14_ReadsBoundInFreshKernel ==
    (leftover = {} /\ stored = StoredNames /\ KRunning /\ running = "none") => ReadsBound

-----------------------------------------------------------------------------
(* Names of the deployed resources *)

EndpointUses == { "endpoint_in_service.EndpointName", "describe_endpoint.EndpointName",
                  "invoke_endpoint.EndpointName" }

\* C15: though timestamp_suffix is reassigned in between, the endpoint config's
\* ModelName is the ModelName passed to create_model, create_endpoint's
\* EndpointConfigName is the one passed to create_endpoint_config, and the waiter,
\* describe_endpoint and every invoke_endpoint use the EndpointName passed to
\* create_endpoint.
C15_DeploymentNamesConsistent ==
    /\ passed["create_endpoint_config.ModelName"] \subseteq passed["create_model.ModelName"]
    /\ passed["create_endpoint.EndpointConfigName"]
          \subseteq passed["create_endpoint_config.EndpointConfigName"]
    /\ \A p \in EndpointUses : passed[p] \subseteq passed["create_endpoint.EndpointName"]
    /\ \A p \in Parameters : Cardinality(passed[p]) <= 1

\* the whole notebook ran, timestamp_suffix having changed after the model was named
C15_Witness ==
    /\ Done
    /\ model_name # "automl-dm-model-" \o timestamp_suffix
    /\ \A p \in Parameters : passed[p] # {}

-----------------------------------------------------------------------------
(* load_dataset *)

\* a row without its first value
RestOf(row) == [i \in 1..(Len(row) - 1) |-> row[i + 1]]

\* C16: load_dataset returns as labels column 0 of the data read and as features
\* the other k-1 columns in their order, both with the rows of the data; with
\* header None the feature columns are renamed 0..k-2, with a header their names
\* are kept.
C16_LabelsFirstColumnFeaturesRest ==
    lpc = "returned" =>
        /\ labels.values = [r \in 1..Len(data.rows) |-> data.rows[r][1]]
        /\ features.rows = [r \in 1..Len(data.rows) |-> RestOf(data.rows[r])]
        /\ Len(features.columns) = Len(data.columns) - 1
        /\ header = "None" =>
              features.columns = [i \in 1..(Len(data.columns) - 1) |-> ToString(i - 1)]
        /\ header # "None" => features.columns = RestOf(data.columns)

\* three columns and rows from two files, without a header
C16_Witness ==
    /\ lpc = "returned"
    /\ header = "None"
    /\ Len(data.columns) = 3
    /\ Len(csv_files) = 2
    /\ Len(data.rows) = 4
    /\ features.columns = << "0", "1" >>

\* a header whose names repeat
C16_WitnessHeader ==
    /\ lpc = "returned"
    /\ header = "0"
    /\ data.columns = << "a", "a.1", "b" >>
    /\ Len(data.rows) = 2

-----------------------------------------------------------------------------
(* What the notebook does to the job *)

\* the cells after create_auto_ml_job, up to the one that calls create_model
BetweenCreateAndModel ==
    CellIndex("create_auto_ml_job") < pc /\ pc <= CellIndex("create_model")

job_at_service == << svc_status, svc_phase, svc_best >>

\* C17: between create_auto_ml_job and create_model no step of the notebook
\* changes the job: its calls for the job are describe_auto_ml_job and
\* list_candidates_for_auto_ml_job, which read, and the job's state at the service
\* moves only by the service's own steps.
C17_JobOnlyReadBetweenCreateAndModel ==
    [][ (BetweenCreateAndModel /\ notebook_vars' # notebook_vars) =>
            /\ job_at_service' = job_at_service
            /\ ncalls'["create_auto_ml_job"] = ncalls["create_auto_ml_job"] ]_vars

\* the notebook has polled, listed the candidates and described the best one,
\* and is about to create the model
C17_Witness ==
    /\ pc = CellIndex("create_model")
    /\ halted = "none"
    /\ svc_status = "Completed"
    /\ ncalls["describe_auto_ml_job"] = MaxCalls
    /\ "list_candidates_for_auto_ml_job" \in returned

-----------------------------------------------------------------------------
(* The trained model's files, in the XGBoost notebook *)

Begun(op) == running = op \/ op \in finished

\* C18: fit() blocks until the training job has ended, so the job's name is read
\* and model.tar.gz is downloaded, extracted and unpickled only after fit() has
\* returned; the download, the extraction and the load each begin only after the
\* step before has finished.
C18_ModelFilesOnlyAfterFit ==
    /\ "fit" \in finished => training_job \in { "Completed", "Stopped" }
    /\ "training_job_name" \in namespace => "fit" \in finished
    /\ Begun("download") => ("fit" \in finished /\ "training_job_name" \in namespace)
    /\ Begun("extract") => "download" \in finished
    /\ Begun("load") => "extract" \in finished

\* the restored estimator is bound: every step has been taken
C18_Witness ==
    /\ notebook = "xgboost"
    /\ "xgb_estimator_restored" \in namespace
    /\ finished = { "fit", "download", "extract", "load" }
    /\ training_job = "Completed"

====
